---- MODULE Spec2Model ----
(***************************************************************************)
(* A model of the sequex crate (src/src/lib.rs): a sequence mutex whose    *)
(* handles acquire the lock in the order of their tickets.                 *)
(*                                                                         *)
(* The atomic turn counter is an AtomicU64.  Its two sentinels are written *)
(* here in two's complement: u64::MAX is -1 and u64::MAX - 1 is -2.  The   *)
(* only arithmetic on the counter is (ticket + 1) % num_tickets, on ticket *)
(* values far below the sentinels, so the encoding loses nothing.          *)
(*                                                                         *)
(* Every handle is one participant: it runs one call at a time, and the    *)
(* calls of different handles interleave at the atomic operations on the   *)
(* turn counter (all of them SeqCst, so they are totally ordered).         *)
(*                                                                         *)
(* The backoff of lock() is a u64 (it is the argument of                   *)
(* Duration::from_micros).  It is kept as its four 16-bit limbs, least     *)
(* significant first, so that backoff *= 2 is computed at its real width:  *)
(* where the product does not fit, a build with overflow checks panics and *)
(* a build without them wraps.                                             *)
(***************************************************************************)
EXTENDS Integers, Sequences, FiniteSets, TLC

\* ---------------------------------------------------------------- bounds
MaxN == 2          \* largest num_tickets passed to new
MaxValue == 0      \* protected values are 0..MaxValue and 42
MaxAcq == 4        \* successful acquisitions recorded per run
MaxParks == 1      \* park_timeout calls per lock() call

\* ------------------------------------------------------ program constants
LOCKED == -1       \* u64::MAX
POISON == -2       \* u64::MAX - 1
InitialBackoff == 100
U64Bits == 64      \* the width of backoff

Values == (0..MaxValue) \cup {42}

\* The seen and val fields of an event are sequences: << >> where the
\* operation produces no such thing, <<x>> for a counter or a protected value
\* x, and the limbs of the u64 for a backoff.
NoVal == << >>

VARIABLES
    handles,    \* the Vec<Sequex<T>> returned by new: ticket, num_tickets
    current,    \* Shared.current, the atomic turn counter
    value,      \* Shared.value, the protected value
    pc,         \* per handle: idle, trying (in lock, before try_lock),
                \*   parked (in lock, inside park_timeout), dropped
    backoff,    \* per handle: the local backoff of a running lock() as the
                \*   limbs of a u64, and << >> outside lock()
    guards,     \* per handle: number of live Guards borrowing it
    acquired,   \* the tickets of the successful acquisitions, in order
    lastWrite,  \* the last write through a Guard (ticket and value) as a
                \*   sequence of one record, empty before the first write
    last,       \* the last operation completed and what it returned
    scen        \* observer: how many steps of the three-handle scenario the
                \*   run has followed so far, -1 once it has left the scenario

vars == <<handles, current, value, pc, backoff, guards, acquired, lastWrite, last,
          scen>>

N == Len(handles)
Handles == 1..N
Ticket(i) == handles[i].ticket
Tickets == {handles[i].ticket : i \in Handles}

\* ------------------------------------------------------- u64 arithmetic
LimbBase == 2^16
NumLimbs == U64Bits \div 16

\* the limbs of a number below 2^31
RECURSIVE ToLimbs(_, _)
ToLimbs(n, len) ==
    IF len = 0 THEN << >>
    ELSE <<n % LimbBase>> \o ToLimbs(n \div LimbBase, len - 1)

U64(n) == ToLimbs(n, NumLimbs)

\* x * m + carry: the limbs that stay in the width, and the carry out of it
RECURSIVE MulLimbs(_, _, _)
MulLimbs(x, m, carry) ==
    IF x = << >> THEN [limbs |-> << >>, carry |-> carry]
    ELSE LET p == Head(x) * m + carry
             r == MulLimbs(Tail(x), m, p \div LimbBase)
         IN [limbs |-> <<p % LimbBase>> \o r.limbs, carry |-> r.carry]

\* the values start, 2 * start, ... of the first k doublings, without overflow
RECURSIVE Doublings(_, _)
Doublings(x, k) ==
    IF k = 0 THEN {}
    ELSE {x} \cup (LET d == MulLimbs(x, 2, 0) IN
                    IF d.carry = 0 THEN Doublings(d.limbs, k - 1) ELSE {})

RECURSIVE SumOver(_, _)
SumOver(f, S) ==
    IF S = {} THEN 0
    ELSE LET x == CHOOSE y \in S : TRUE IN f[x] + SumOver(f, S \ {x})

LiveGuards == SumOver(guards, Handles)
Dropped == {i \in Handles : pc[i] = "dropped"}

\* -------------------------------------------------------------- Sequex::new
\* variant: the tickets are numbered from 1
New_fromOne(v, n) ==
    [shared |-> [current |-> 0, value |-> v],
     vec    |-> [i \in 1..n |-> [ticket |-> i, num_tickets |-> n]]]

New(v, n) ==
    [shared |-> [current |-> 0, value |-> v],
     vec    |-> [i \in 1..n |-> [ticket |-> i - 1, num_tickets |-> n]]]

\* ------------------------------------------- AtomicU64::compare_exchange
\* ok: the exchange happened; prev: the value found; next: the value left.
\* variant: the new value is stored whatever was found (a swap)
CompareExchange_swap(cur, expected, new) ==
    [ok |-> cur = expected, prev |-> cur, next |-> new]

CompareExchange(cur, expected, new) ==
    IF cur = expected
    THEN [ok |-> TRUE,  prev |-> cur, next |-> new]
    ELSE [ok |-> FALSE, prev |-> cur, next |-> cur]

\* ---------------------------------------------------------- Sequex::try_lock
\* out: "Guard" is Ok(Some(guard)), "None" is Ok(None), "Poisoned" is Err
\* variant: the turn is not compared, any unpoisoned counter is taken
try_lock_anyTurn(i, cur) ==
    [out  |-> IF cur = POISON THEN "Poisoned" ELSE "Guard",
     seen |-> cur,
     next |-> IF cur = POISON THEN cur ELSE LOCKED]

\* variant: the error arm reads current >= POISON, which LOCKED satisfies
try_lock_gePoison(i, cur) ==
    LET r == CompareExchange(cur, handles[i].ticket, LOCKED) IN
    [out  |-> IF r.ok THEN "Guard"
              ELSE IF r.prev \in {POISON, LOCKED} THEN "Poisoned"
              ELSE "None",
     seen |-> r.prev,
     next |-> r.next]

\* variant: the holder of the Guard is let in again
try_lock_reentrant(i, cur) ==
    LET r == CompareExchange(cur, handles[i].ticket, LOCKED) IN
    IF cur = LOCKED /\ guards[i] > 0
    THEN [out |-> "Guard", seen |-> cur, next |-> LOCKED]
    ELSE [out  |-> IF r.ok THEN "Guard"
                   ELSE IF r.prev = POISON THEN "Poisoned"
                   ELSE "None",
          seen |-> r.prev,
          next |-> r.next]

try_lock(i, cur) ==
    LET r == CompareExchange(cur, handles[i].ticket, LOCKED) IN
    [out  |-> IF r.ok THEN "Guard"
              ELSE IF r.prev = POISON THEN "Poisoned"
              ELSE "None",
     seen |-> r.prev,
     next |-> r.next]

\* ------------------------------------------------------------ Drop for Guard
\* variant: the turn advances by two
GuardDrop_skip(i, cur) ==
    LET next == (handles[i].ticket + 2) % handles[i].num_tickets IN
    CompareExchange(cur, LOCKED, next)

\* variant: the turn is not reduced modulo num_tickets
GuardDrop_noMod(i, cur) ==
    LET next == handles[i].ticket + 1 IN
    CompareExchange(cur, LOCKED, next)

\* variant: the next turn is stored without comparing with LOCKED
GuardDrop_store(i, cur) ==
    LET next == (handles[i].ticket + 1) % handles[i].num_tickets IN
    [ok |-> TRUE, prev |-> cur, next |-> next]

\* variant: the exchange expects the ticket where it should expect LOCKED
GuardDrop_expectTicket(i, cur) ==
    LET next == (handles[i].ticket + 1) % handles[i].num_tickets IN
    CompareExchange(cur, handles[i].ticket, next)

GuardDrop(i, cur) ==
    LET next == (handles[i].ticket + 1) % handles[i].num_tickets IN
    CompareExchange(cur, LOCKED, next)

\* ----------------------------------------------------------- Drop for Sequex
\* variant: a held lock is left alone
SequexDrop_unlessLocked(cur) == IF cur = LOCKED THEN cur ELSE POISON

SequexDrop(cur) == POISON

\* ------------------------------------------------------ Deref and DerefMut
\* Deref reads the cell; DerefMut hands out the cell, and the assignment
\* through it leaves w there.
Deref(v) == v

\* variant: the reference is to a copy, the cell keeps its value
DerefMut_copy(v, w) == v

DerefMut(v, w) == w

\* --------------------------------------------------- Sequex::lock, the loop
\* Where a lock() call goes after a try_lock with the given outcome: "idle"
\* is a return (Ok(guard), or Err through the ? operator), "parked" is the
\* park_timeout before the next attempt.
\* variant: Ok(None) is returned to the caller
lock_step_noRetry(out) == "idle"

lock_step(out) == IF out = "None" THEN "parked" ELSE "idle"

\* backoff *= 2 on the u64
backoff_double(b) == MulLimbs(b, 2, 0)

Event(op, i, out, seen, val) ==
    [op |-> op, h |-> i, out |-> out, seen |-> seen, val |-> val]

\* The calls of the three-handle scenario in their order; h0, h1, h2 are the
\* handles 1, 2, 3 of the vector.  A lock() is its entry and then its attempt.
ScenarioScript ==
    << [op |-> "try_lock",  h |-> 2],
       [op |-> "lock_call", h |-> 1],
       [op |-> "lock",      h |-> 1],
       [op |-> "write",     h |-> 1],
       [op |-> "release",   h |-> 1],
       [op |-> "lock_call", h |-> 2],
       [op |-> "lock",      h |-> 2],
       [op |-> "read",      h |-> 2],
       [op |-> "try_lock",  h |-> 3],
       [op |-> "release",   h |-> 2],
       [op |-> "lock_call", h |-> 3],
       [op |-> "lock",      h |-> 3] >>

\* the event ev is the call e of the script, whatever it returned
ScenarioMatches(e, ev) ==
    /\ ev.h = e.h
    /\ \/ ev.op = e.op
       \/ e.op = "lock" /\ ev.op = "lock_retry"
    /\ e.op = "write" => ev.val = <<42>>

\* the observer after a step that left the event ev
ScenarioNext(k, ev) ==
    IF k >= 0 /\ k < Len(ScenarioScript) /\ ScenarioMatches(ScenarioScript[k + 1], ev)
    THEN k + 1
    ELSE -1

\* the state when new(v, n) has returned
InitWith(n, v) ==
    LET s == New(v, n) IN
    /\ handles = s.vec
    /\ current = s.shared.current
    /\ value = s.shared.value
    /\ pc = [i \in 1..n |-> "idle"]
    /\ backoff = [i \in 1..n |-> << >>]
    /\ guards = [i \in 1..n |-> 0]
    /\ acquired = << >>
    /\ lastWrite = << >>
    /\ last = Event("new", 0, "none", NoVal, NoVal)
    /\ scen = IF n = 3 THEN 0 ELSE -1

Init == \E n \in 0..MaxN, v \in Values : InitWith(n, v)

\* The effect of one try_lock by handle i on the shared state and the
\* bookkeeping of Guards; op names the caller (try_lock or lock).  The
\* history keeps the first MaxAcq acquisitions.
Attempt(i, op, val) ==
    LET r == try_lock(i, current) IN
    /\ current' = r.next
    /\ guards' = IF r.out = "Guard" THEN [guards EXCEPT ![i] = @ + 1] ELSE guards
    /\ acquired' = IF r.out = "Guard" /\ Len(acquired) < MaxAcq
                   THEN Append(acquired, handles[i].ticket)
                   ELSE acquired
    /\ last' = Event(op, i, r.out, <<r.seen>>, val)

\* h.try_lock()
TryLock(i) ==
    /\ pc[i] = "idle"
    /\ Attempt(i, "try_lock", NoVal)
    /\ UNCHANGED <<handles, value, pc, backoff, lastWrite>>

\* h.lock(): entry, let mut backoff = 100
LockCall(i) ==
    /\ pc[i] = "idle"
    /\ pc' = [pc EXCEPT ![i] = "trying"]
    /\ backoff' = [backoff EXCEPT ![i] = U64(InitialBackoff)]
    /\ last' = Event("lock_call", i, "none", NoVal, NoVal)
    /\ UNCHANGED <<handles, current, value, guards, acquired, lastWrite>>

\* h.lock(): one turn of the loop, up to the return or the park_timeout.
\* The event is "lock" when the call returns and "lock_retry" when it parks;
\* its val is the backoff of the call at that attempt.
LockAttempt(i) ==
    /\ pc[i] = "trying"
    /\ LET to == lock_step(try_lock(i, current).out) IN
       /\ Attempt(i, IF to = "idle" THEN "lock" ELSE "lock_retry", backoff[i])
       /\ pc' = [pc EXCEPT ![i] = to]
       /\ backoff' = IF to = "idle" THEN [backoff EXCEPT ![i] = << >>] ELSE backoff
    /\ UNCHANGED <<handles, value, lastWrite>>

\* h.lock(): park_timeout returns (timeout, unpark or spurious wakeup) and
\* backoff *= 2 follows.  If the product does not fit in the u64, a build
\* without overflow checks keeps the wrapped limbs and goes on, and a build
\* with them panics: the call unwinds out of lock() without a result.
UnparkStep(i) ==
    /\ pc[i] = "parked"
    /\ LET d == backoff_double(backoff[i]) IN
       \/ /\ pc' = [pc EXCEPT ![i] = "trying"]
          /\ backoff' = [backoff EXCEPT ![i] = d.limbs]
          /\ last' = Event("unpark", i, "none", NoVal, d.limbs)
       \/ /\ d.carry # 0
          /\ pc' = [pc EXCEPT ![i] = "idle"]
          /\ backoff' = [backoff EXCEPT ![i] = << >>]
          /\ last' = Event("lock_panic", i, "none", NoVal, backoff[i])
    /\ UNCHANGED <<handles, current, value, guards, acquired, lastWrite>>

\* the same step, for at most MaxParks parks per call
Unpark(i) ==
    /\ backoff[i] \in Doublings(U64(InitialBackoff), MaxParks)
    /\ UnparkStep(i)

\* drop(guard)
Release(i) ==
    /\ pc[i] = "idle"
    /\ guards[i] > 0
    /\ LET r == GuardDrop(i, current) IN
       /\ current' = r.next
       /\ last' = Event("release", i, "none", <<r.prev>>, NoVal)
    /\ guards' = [guards EXCEPT ![i] = @ - 1]
    /\ UNCHANGED <<handles, value, pc, backoff, acquired, lastWrite>>

\* drop(h): the borrow of a live Guard or of a running call forbids it
DropHandle(i) ==
    /\ pc[i] = "idle"
    /\ guards[i] = 0
    /\ current' = SequexDrop(current)
    /\ pc' = [pc EXCEPT ![i] = "dropped"]
    /\ last' = Event("drop", i, "none", NoVal, NoVal)
    /\ UNCHANGED <<handles, value, backoff, guards, acquired, lastWrite>>

\* *guard = w
\* variant: the cell is reached through the handle, without a Guard
Write_unguarded(i, w) ==
    /\ pc[i] = "idle"
    /\ value' = DerefMut(value, w)
    /\ lastWrite' = << [by |-> handles[i].ticket, val |-> w] >>
    /\ last' = Event("write", i, "none", NoVal, <<w>>)
    /\ UNCHANGED <<handles, current, pc, backoff, guards, acquired>>

Write(i, w) ==
    /\ pc[i] = "idle"
    /\ guards[i] > 0
    /\ value' = DerefMut(value, w)
    /\ lastWrite' = << [by |-> handles[i].ticket, val |-> w] >>
    /\ last' = Event("write", i, "none", NoVal, <<w>>)
    /\ UNCHANGED <<handles, current, pc, backoff, guards, acquired>>

\* *guard
Read(i) ==
    /\ pc[i] = "idle"
    /\ guards[i] > 0
    /\ last' = Event("read", i, "none", NoVal, <<Deref(value)>>)
    /\ UNCHANGED <<handles, current, value, pc, backoff, guards, acquired, lastWrite>>

\* every step is watched by the observer of the scenario
Observe == scen' = ScenarioNext(scen, last')

Next ==
    \E i \in Handles :
        \/ TryLock(i) /\ Observe
        \/ LockCall(i) /\ Observe
        \/ LockAttempt(i) /\ Observe
        \/ Unpark(i) /\ Observe
        \/ Release(i) /\ Observe
        \/ DropHandle(i) /\ Observe
        \/ \E w \in Values : Write(i, w) /\ Observe
        \/ Read(i) /\ Observe

Spec == Init /\ [][Next]_vars

\* The three handles of the scenario, and every call on them.
InitScenario == \E v \in Values : InitWith(3, v)

SpecScenario == InitScenario /\ [][Next]_vars

\* One handle, and no bound on the parks of a lock() call: the handle that
\* calls lock() while it holds its own Guard goes round the loop for ever,
\* and its backoff runs through every value a u64 can take by doubling.
InitBackoff == Init /\ N = 1

NextBackoff ==
    \E i \in Handles :
        \/ TryLock(i) /\ Observe
        \/ LockCall(i) /\ Observe
        \/ LockAttempt(i) /\ Observe
        \/ UnparkStep(i) /\ Observe
        \/ Release(i) /\ Observe
        \/ DropHandle(i) /\ Observe
        \/ \E w \in Values : Write(i, w) /\ Observe
        \/ Read(i) /\ Observe

SpecBackoff == InitBackoff /\ [][NextBackoff]_vars

\* Cooperation: one or two handles of which none is dropped; a handle calls
\* lock() whenever it holds no Guard and releases every Guard it gets.  The
\* scheduler is fair to every thread (the attempts and the wakeups of lock),
\* and the callers keep their side (the calls and the releases).  The parks
\* of a call are not bounded.
InitCoop == Init /\ N \in 1..2 /\ value = 42

CoopLockCall(i) == i \in Handles /\ guards[i] = 0 /\ LockCall(i) /\ Observe
CoopLockAttempt(i) == i \in Handles /\ LockAttempt(i) /\ Observe
CoopUnpark(i) == i \in Handles /\ UnparkStep(i) /\ Observe
CoopRelease(i) == i \in Handles /\ Release(i) /\ Observe

NextCoop ==
    \E i \in Handles :
        \/ CoopLockCall(i)
        \/ CoopLockAttempt(i)
        \/ CoopUnpark(i)
        \/ CoopRelease(i)

FairCoop ==
    \A i \in 1..MaxN :
        /\ WF_vars(CoopLockCall(i))
        /\ WF_vars(CoopLockAttempt(i))
        /\ WF_vars(CoopUnpark(i))
        /\ WF_vars(CoopRelease(i))

SpecCoop == InitCoop /\ [][NextCoop]_vars /\ FairCoop

\* Poisoning under a fair scheduler: two handles that acquire by lock(),
\* release and are dropped.  The scheduler is fair to the threads that are
\* inside lock(); nothing is promised about what the callers do.  The parks
\* of a call are not bounded.
InitPoison == Init /\ N = 2 /\ value = 42

PoisonLockAttempt(i) == i \in Handles /\ LockAttempt(i) /\ Observe
PoisonUnpark(i) == i \in Handles /\ UnparkStep(i) /\ Observe

NextPoison ==
    \E i \in Handles :
        \/ LockCall(i) /\ Observe
        \/ PoisonLockAttempt(i)
        \/ PoisonUnpark(i)
        \/ Release(i) /\ Observe
        \/ DropHandle(i) /\ Observe

FairPoison ==
    \A i \in 1..MaxN :
        /\ WF_vars(PoisonLockAttempt(i))
        /\ WF_vars(PoisonUnpark(i))

SpecPoison == InitPoison /\ [][NextPoison]_vars /\ FairPoison

\* ------------------------------------------------------------- properties
AttemptOps == {"try_lock", "lock", "lock_retry"}

\* C1 - mutual exclusion: in every reachable state at most one Guard is
\* live, counted over all the handles, also after a handle was dropped while
\* a Guard was held.
C1_MutualExclusion == LiveGuards <= 1

\* a Guard is live on a poisoned lock
C1_Witness ==
    /\ LiveGuards = 1
    /\ current = POISON
    /\ Dropped # {}

\* C2 - rotation order: while no handle has been dropped, the k-th successful
\* acquisition (by try_lock or by lock) is by ticket (k - 1) mod N, whatever
\* the order in which the handles entered their calls.
C2_RotationOrder ==
    Dropped = {} =>
        \A k \in 1..Len(acquired) : acquired[k] = (k - 1) % N

\* the rotation wrapped around while a later ticket was already waiting
C2_Witness ==
    /\ N >= 2
    /\ Dropped = {}
    /\ Len(acquired) > N
    /\ last.op = "lock"
    /\ last.out = "Guard"
    /\ last.val # U64(InitialBackoff)

\* C3 - poisoning is permanent: once a handle has been dropped the turn
\* counter is POISON in every later state, and every later try_lock and every
\* later attempt of lock returns Poisoned (never a Guard, never a retry).
C3_PoisonPermanent ==
    Dropped # {} =>
        /\ current = POISON
        /\ last.op \in AttemptOps =>
              /\ last.out = "Poisoned"
              /\ pc[last.h] = "idle"

\* a handle was dropped before anyone acquired and a lock() returned Poisoned
C3_Witness ==
    /\ Dropped # {}
    /\ acquired = << >>
    /\ last.op = "lock"
    /\ last.out = "Poisoned"

\* C4 - try_lock out of turn: when the counter is not POISON and not the
\* caller's ticket, try_lock returns Ok(None) and leaves the turn counter and
\* the protected value as they were.
C4_TryLockNotYet ==
    [][(/\ last'.op = "try_lock"
        /\ current # POISON
        /\ current # Ticket(last'.h))
       => (/\ last'.out = "None"
           /\ current' = current
           /\ value' = value)]_vars

\* a try_lock found the lock held by another handle's Guard
C4_Witness ==
    /\ last.op = "try_lock"
    /\ last.out = "None"
    /\ last.seen = <<LOCKED>>
    /\ guards[last.h] = 0
    /\ current = LOCKED

\* C5 - Poisoned is returned exactly when the attempt finds POISON in the
\* turn counter; it is not returned while no handle has been dropped, and it
\* leaves the counter at POISON.
C5_PoisonedIffPoison ==
    [][last'.op \in AttemptOps
       => (/\ (last'.out = "Poisoned") <=> (current = POISON)
           /\ last'.out = "Poisoned" => (Dropped # {} /\ current' = POISON))]_vars

\* a try_lock returned Poisoned
C5_Witness ==
    /\ last.op = "try_lock"
    /\ last.out = "Poisoned"
    /\ last.seen = <<POISON>>
    /\ current = POISON

\* C6 - construction: for num_tickets >= 1, new returns num_tickets handles,
\* the i-th (from 0) with ticket i, sharing a counter that starts at 0, so
\* the first successful acquisition is by ticket 0.
C6_Construction ==
    N >= 1 =>
        /\ \A i \in Handles :
              /\ handles[i].ticket = i - 1
              /\ handles[i].num_tickets = N
        /\ last.op = "new" => current = 0
        /\ acquired # << >> => acquired[1] = 0

\* the largest vector of handles was built and the first acquisition happened
C6_Witness ==
    /\ N = MaxN
    /\ Len(acquired) = 1
    /\ current = LOCKED

\* C7 - release advances the turn by one: releasing the Guard of ticket t
\* with the counter at LOCKED leaves (t + 1) mod N, and the counter takes a
\* new ticket value in no other step.
C7_ReleaseAdvances ==
    [][/\ (last'.op = "release" /\ current = LOCKED)
            => current' = (Ticket(last'.h) + 1) % N
       /\ (current' \in 0..(N - 1) /\ current' # current)
            => (last'.op = "release" /\ current = LOCKED)]_vars

\* the Guard of the last ticket handed over to ticket 0
C7_Witness ==
    /\ N >= 2
    /\ last.op = "release"
    /\ last.seen = <<LOCKED>>
    /\ Ticket(last.h) = N - 1
    /\ current = 0

\* C8 - release after poisoning: the drop of a handle while a Guard is live
\* leaves POISON, and the release of that Guard afterwards leaves POISON too.
C8_ReleaseAfterPoison ==
    [][/\ (last'.op = "drop" /\ LiveGuards > 0) => current' = POISON
       /\ (last'.op = "release" /\ current = POISON)
            => (current' = POISON /\ last'.out = "none")]_vars

\* a Guard was released on a poisoned lock
C8_Witness ==
    /\ last.op = "release"
    /\ last.seen = <<POISON>>
    /\ current = POISON
    /\ LiveGuards = 0

\* C9 - round trip: a read through the Guard of ticket (t + 1) mod N returns
\* the value last written through the Guard of ticket t.
C9_RoundTrip ==
    (/\ last.op = "read"
     /\ lastWrite # << >>
     /\ Ticket(last.h) = (lastWrite[1].by + 1) % N)
    => last.val = <<lastWrite[1].val>>

\* the next ticket in rotation read what the previous one wrote
C9_Witness ==
    /\ N >= 2
    /\ last.op = "read"
    /\ lastWrite # << >>
    /\ Ticket(last.h) = (lastWrite[1].by + 1) % N
    /\ last.val = <<42>>

\* C10 - lock() returns in two ways only: with a Guard from an attempt that
\* found the caller's ticket and left LOCKED, or with Poisoned from an
\* attempt that found POISON; after any other attempt the call is still
\* running, parked before its next attempt.
C10_LockReturns ==
    [][\A i \in Handles :
          /\ pc[i] = "trying" /\ pc'[i] = "idle"
                => /\ last'.op = "lock" /\ last'.h = i
                   /\ \/ /\ last'.out = "Guard"
                         /\ current = Ticket(i)
                         /\ current' = LOCKED
                         /\ guards'[i] = guards[i] + 1
                      \/ /\ last'.out = "Poisoned"
                         /\ current = POISON
                         /\ guards'[i] = guards[i]
          /\ (pc[i] = "trying" /\ pc'[i] # pc[i] /\ current \notin {Ticket(i), POISON})
                => pc'[i] = "parked"]_vars

\* a lock() call returned a Guard after it had parked at least once
C10_Witness ==
    /\ last.op = "lock"
    /\ last.out = "Guard"
    /\ last.val # U64(InitialBackoff)
    /\ pc[last.h] = "idle"
    /\ guards[last.h] = 1

InLock(i) == pc[i] \in {"trying", "parked"}

\* C11 - lock() can block for ever: with no handle dropped, a lock() call of
\* ticket t does not return in any step taken while the turn counter is not
\* t (it is another ticket, or LOCKED by a holder that has not released), so
\* it never returns in a run where the turn never reaches t.
C11_LockBlocks ==
    [][\A i \in Handles :
          (InLock(i) /\ Dropped = {} /\ current # Ticket(i))
              => ~(last'.op = "lock" /\ last'.h = i)]_vars

\* a lock() call has retried and is parked again behind another handle's Guard
C11_Witness ==
    \E i \in Handles :
        /\ pc[i] = "parked"
        /\ backoff[i] # U64(InitialBackoff)
        /\ Dropped = {}
        /\ current = LOCKED
        /\ guards[i] = 0

\* C12 - the three-handle scenario: on fresh handles h0, h1, h2,
\* h1.try_lock() returns no Guard; h0.lock() returns a Guard, 42 is written
\* and the Guard released; h1.lock() returns a Guard and reads 42; with that
\* Guard live h2.try_lock() returns no Guard; after its release h2.lock()
\* returns a Guard.
C12_Scenario ==
    /\ scen = 1 => last.out = "None"
    /\ scen = 3 => (last.op = "lock" /\ last.out = "Guard")
    /\ scen = 4 => value = 42
    /\ scen = 5 => current = 1
    /\ scen = 7 => (last.op = "lock" /\ last.out = "Guard")
    /\ scen = 8 => last.val = <<42>>
    /\ scen = 9 => (last.out = "None" /\ guards[2] = 1)
    /\ scen = 12 => (last.op = "lock" /\ last.out = "Guard")

\* the scenario ran to its end
C12_Witness ==
    /\ scen = Len(ScenarioScript)
    /\ guards[3] = 1
    /\ value = 42

\* C13 - the range of the turn counter: in every reachable state of a lock
\* with handles the counter is a ticket in 0..N-1, LOCKED or POISON.  (With
\* num_tickets = 0 the Arc has no owner left when new returns, so there is
\* no counter to speak of.)
C13_TurnRange ==
    N >= 1 => current \in (0..(N - 1)) \cup {LOCKED, POISON}

\* the counter reached the last ticket through a release
C13_Witness ==
    /\ N >= 2
    /\ current = N - 1
    /\ last.op = "release"
    /\ last.seen = <<LOCKED>>

\* a u64 with room for the carry of one doubling
Widen(x) == x \o <<0>>

\* C14 - backoff: the first wait of a lock() call is 100 microseconds and
\* every wait is followed by one of exactly twice its length, so that the
\* k-th wait is 100 * 2^k for every k, without a cap.
C14_BackoffDoubles ==
    [][\A i \in Handles :
          /\ (pc[i] = "idle" /\ pc'[i] = "trying")
                => backoff'[i] = U64(InitialBackoff)
          /\ (pc[i] = "parked" /\ pc'[i] # "parked")
                => /\ pc'[i] = "trying"
                   /\ Widen(backoff'[i]) = MulLimbs(Widen(backoff[i]), 2, 0).limbs]_vars

\* C15 - a participant count of 0 is rejected at construction: no lock with
\* num_tickets = 0 exists in any state, so that Guard drop never computes
\* (ticket + 1) % 0.
C15_ZeroRejected ==
    /\ N >= 1
    /\ \A i \in Handles : handles[i].num_tickets >= 1

\* C16 - the turn counter tracks the Guards: when it is LOCKED exactly one
\* Guard is live, when it is a ticket no Guard is live, and a Guard is live
\* with the counter not LOCKED only when the counter is POISON.
C16_TurnTracksGuards ==
    /\ current = LOCKED => LiveGuards = 1
    /\ current \in 0..(N - 1) => LiveGuards = 0
    /\ (LiveGuards > 0 /\ current # LOCKED) => current = POISON

\* the lock is held for the second time while another handle waits in lock()
C16_Witness ==
    /\ current = LOCKED
    /\ LiveGuards = 1
    /\ Len(acquired) = 2
    /\ \E i \in Handles : pc[i] = "parked" /\ guards[i] = 0

\* C17 - progress under cooperation: with no handle dropped, every Guard
\* released and every handle calling lock() again, every lock() call comes
\* to an end under fair scheduling, and it ends by returning a Guard.
C17_Progress ==
    /\ [][\A i \in Handles :
             (InLock(i) /\ ~InLock(i)')
                 => (last'.op = "lock" /\ last'.h = i /\ last'.out = "Guard")]_vars
    /\ \A i \in 1..MaxN :
          (i \in Handles /\ InLock(i)) ~> (i \in Handles /\ ~InLock(i))

\* C18 - poison wakes the waiters: once a handle has been dropped, every
\* lock() call that is in its loop comes to an end under fair scheduling,
\* and it ends by returning Poisoned, whatever the counter was at the drop.
C18_PoisonWakes ==
    /\ [][\A i \in Handles :
             (InLock(i) /\ Dropped # {} /\ ~InLock(i)')
                 => (last'.op = "lock" /\ last'.h = i /\ last'.out = "Poisoned")]_vars
    /\ \A i \in 1..MaxN :
          (i \in Handles /\ InLock(i) /\ Dropped # {})
              ~> (i \in Handles /\ ~InLock(i))

\* C19 - the lock is not reentrant: while a handle holds its own live Guard
\* and the lock is not poisoned, a try_lock on that handle returns no Guard
\* and creates none, and a lock() on that handle does not return.
C19_NotReentrant ==
    [][\A i \in Handles :
          (guards[i] > 0 /\ current # POISON /\ Dropped = {})
              => /\ (last'.op = "try_lock" /\ last'.h = i)
                        => (last'.out = "None" /\ guards'[i] = guards[i])
                 /\ InLock(i) => ~(last'.op = "lock" /\ last'.h = i)]_vars

\* the holder of the Guard called lock(), retried and is parked again
C19_Witness ==
    \E i \in Handles :
        /\ guards[i] = 1
        /\ pc[i] = "parked"
        /\ backoff[i] # U64(InitialBackoff)
        /\ Dropped = {}

\* C20 - the protected value changes only in a write through the live Guard
\* of the writing handle; try_lock, the steps of lock, the release of a Guard
\* and the drop of a handle leave it as it is.
C20_ValueFrame ==
    [][value' # value
          => /\ last'.op = "write"
             /\ guards[last'.h] > 0
             /\ <<value'>> = last'.val]_vars

\* a write through a Guard that outlived the poisoning of the lock
C20_Witness ==
    /\ last.op = "write"
    /\ last.val = <<42>>
    /\ value = 42
    /\ guards[last.h] = 1
    /\ current = POISON

====
